---- MODULE Spec2Model ----
(***************************************************************************)
(* A model of repoze.bfg.traversal: the path codec (traversal_path,        *)
(* quote_path_segment, _join_path_tuple), the graph traverser              *)
(* (ModelGraphTraverser.__call__) and the locator helpers (find_root,      *)
(* find_model, traverse, model_path, model_path_tuple).                    *)
(*                                                                         *)
(* Representation.  A Python byte string is a sequence of byte values      *)
(* (0..255), a unicode object a sequence of code points, a tuple of       *)
(* segments a sequence of such sequences.  A model object is a node        *)
(* number 1..N of a graph record; None as a node is 0.  A call that raises *)
(* returns [status |-> <exception class>]; a call that returns gives       *)
(* [status |-> "ok", ...].                                                 *)
(***************************************************************************)
EXTENDS Integers, Sequences, FiniteSets, TLC

VARIABLES graph, call, ret, _segment_cache, thread, calls, frame

vars == <<graph, call, ret, _segment_cache, thread, calls, frame>>

(***************************************************************************)
(* Characters the code names.                                              *)
(***************************************************************************)
SLASH == 47
DOT == 46
AT == 64
PERCENT == 37

None == 0
NoName == <<-1>>

Ok(v) == [status |-> "ok", value |-> v]
Raise(exc) == [status |-> exc]

(***************************************************************************)
(* Python string primitives.                                               *)
(***************************************************************************)
RECURSIVE lstrip(_, _)
lstrip(s, c) ==
    IF s # <<>> /\ Head(s) = c THEN lstrip(Tail(s), c) ELSE s

RECURSIVE rstrip(_, _)
rstrip(s, c) ==
    IF s # <<>> /\ s[Len(s)] = c THEN rstrip(SubSeq(s, 1, Len(s) - 1), c) ELSE s

\* s.split(sep): the pieces between the separators; ''.split('/') is [''].
RECURSIVE split(_, _)
split(s, sep) ==
    IF \A k \in 1..Len(s) : s[k] # sep
    THEN <<s>>
    ELSE LET k == CHOOSE j \in 1..Len(s) :
                      s[j] = sep /\ \A h \in 1..(j - 1) : s[h] # sep
         IN  <<SubSeq(s, 1, k - 1)>> \o split(SubSeq(s, k + 1, Len(s)), sep)

\* sep.join(parts)
RECURSIVE join(_, _)
join(parts, sep) ==
    IF parts = <<>> THEN <<>>
    ELSE IF Len(parts) = 1 THEN parts[1]
    ELSE parts[1] \o <<sep>> \o join(Tail(parts), sep)

startswith(s, prefix) ==
    Len(prefix) <= Len(s) /\ SubSeq(s, 1, Len(prefix)) = prefix

\* t[:n] and t[n:] for n >= 0 (Python clamps n to the length).
slice_to(t, n) == SubSeq(t, 1, IF n < Len(t) THEN n ELSE Len(t))
slice_from(t, n) == SubSeq(t, n + 1, Len(t))

(***************************************************************************)
(* urllib.unquote and urllib.quote(s, safe=''), UTF-8.                      *)
(***************************************************************************)
IsHex(c) == (c >= 48 /\ c <= 57) \/ (c >= 65 /\ c <= 70) \/ (c >= 97 /\ c <= 102)

HexVal(c) == IF c <= 57 THEN c - 48 ELSE IF c <= 70 THEN c - 55 ELSE c - 87

HexDigit(n) == IF n < 10 THEN 48 + n ELSE 55 + n

\* %XY with two hex digits becomes the byte 16*X+Y; any other % stays.
RECURSIVE unquote(_)
unquote(s) ==
    IF s = <<>> THEN <<>>
    ELSE IF s[1] = PERCENT /\ Len(s) >= 3 /\ IsHex(s[2]) /\ IsHex(s[3])
         THEN <<16 * HexVal(s[2]) + HexVal(s[3])>> \o unquote(SubSeq(s, 4, Len(s)))
         ELSE <<s[1]>> \o unquote(Tail(s))

\* urllib's always_safe: letters, digits and "_.-".
AlwaysSafe(c) ==
    \/ c >= 48 /\ c <= 57
    \/ c >= 65 /\ c <= 90
    \/ c >= 97 /\ c <= 122
    \/ c \in {95, 46, 45}

RECURSIVE url_quote(_)
url_quote(s) ==
    IF s = <<>> THEN <<>>
    ELSE (IF AlwaysSafe(s[1]) THEN <<s[1]>>
          ELSE <<PERCENT, HexDigit(s[1] \div 16), HexDigit(s[1] % 16)>>)
         \o url_quote(Tail(s))

\* unicode.encode('utf-8') for code points below 0x800.
RECURSIVE encode_utf8(_)
encode_utf8(u) ==
    IF u = <<>> THEN <<>>
    ELSE (IF u[1] < 128 THEN <<u[1]>>
          ELSE <<192 + (u[1] \div 64), 128 + (u[1] % 64)>>)
         \o encode_utf8(Tail(u))

\* str.decode('utf-8') for one- and two-byte forms; every other byte
\* sequence the model feeds it (a stray 0x80..0xC1 or 0xFF) is invalid.
RECURSIVE valid_utf8(_)
valid_utf8(s) ==
    IF s = <<>> THEN TRUE
    ELSE IF s[1] < 128 THEN valid_utf8(Tail(s))
    ELSE IF s[1] >= 194 /\ s[1] <= 223 /\ Len(s) >= 2 /\ s[2] >= 128 /\ s[2] <= 191
         THEN valid_utf8(SubSeq(s, 3, Len(s)))
         ELSE FALSE

RECURSIVE decode_utf8(_)
decode_utf8(s) ==
    IF s = <<>> THEN <<>>
    ELSE IF s[1] < 128 THEN <<s[1]>> \o decode_utf8(Tail(s))
    ELSE <<(s[1] - 192) * 64 + (s[2] - 128)>> \o decode_utf8(SubSeq(s, 3, Len(s)))

(***************************************************************************)
(* traversal_path (the spec's decode_path).  The lru_cache decorator       *)
(* returns the function's own value for every key, and an exception is     *)
(* never cached, so the cached function is the function.                   *)
(***************************************************************************)
\* A slip: deleting from the empty list is ignored instead of raising.
del_last_clamped(clean) ==
    Ok(IF clean = <<>> THEN <<>> ELSE SubSeq(clean, 1, Len(clean) - 1))

\* del clean[-1]: IndexError on an empty list.
del_last(clean) ==
    IF clean = <<>> THEN Raise("IndexError")
    ELSE Ok(SubSeq(clean, 1, Len(clean) - 1))

\* A slip: only the empty segment is skipped, "." is kept.
is_skipped_empty_only(segment) == segment = <<>>

\* The test of line 429: the unquoted segment is skipped.
is_skipped(segment) == segment = <<>> \/ segment = <<DOT>>

\* The test of line 431.
is_parent(segment) == segment = <<DOT, DOT>>

RECURSIVE traversal_path_loop(_, _, _)
traversal_path_loop(pieces, k, clean) ==
    IF k > Len(pieces) THEN Ok(clean)
    ELSE LET segment == unquote(pieces[k])
         IN  IF is_skipped(segment)
             THEN traversal_path_loop(pieces, k + 1, clean)
             ELSE IF is_parent(segment)
             THEN LET d == del_last(clean)
                  IN  IF d.status # "ok" THEN d
                      ELSE traversal_path_loop(pieces, k + 1, d.value)
             ELSE IF ~valid_utf8(segment) THEN Raise("TypeError")
             ELSE traversal_path_loop(pieces, k + 1,
                                      Append(clean, decode_utf8(segment)))

traversal_path(path) ==
    traversal_path_loop(split(lstrip(rstrip(path, SLASH), SLASH), SLASH), 1, <<>>)

(***************************************************************************)
(* quote_path_segment and _join_path_tuple.  Segments and names are        *)
(* unicode objects, so line 473's branch is the one taken; _segment_cache  *)
(* only ever stores the value computed for its key.                        *)
(***************************************************************************)
\* A slip: a unicode segment is quoted without being encoded first.
quote_path_segment_unencoded(segment) == url_quote(segment)

quote_path_segment(segment) == url_quote(encode_utf8(segment))

\* quote_path_segment step by step, for calls that run side by side.  A
\* segment is a unicode object or a byte string.
Unicode(s) == [unicode |-> TRUE, s |-> s]
Bytes(s) == [unicode |-> FALSE, s |-> s]

IsAscii(s) == \A k \in 1..Len(s) : s[k] < 128

\* A slip: a byte string and a unicode object of the same content are
\* taken for the same key whatever the content.
same_key_by_content(a, b) == a.s = b.s

\* Dictionary keys: equal hash and ==.  A byte string equals a unicode
\* object only when it is ASCII and has the same content.
same_key(a, b) == a = b \/ (a.s = b.s /\ IsAscii(a.s))

\* Line 471: _segment_cache[segment], KeyError when has_key is false.
has_key(cache, segment) == \E e \in cache : same_key(e[1], segment)

cache_get(cache, segment) ==
    (CHOOSE e \in cache : same_key(e[1], segment))[2]

\* Lines 473-476.
quote_result(segment) ==
    IF segment.unicode THEN url_quote(encode_utf8(segment.s))
    ELSE url_quote(segment.s)

\* Line 479: one STORE_SUBSCR; an equal key already there keeps its place
\* and gets the new value.
cache_set(cache, segment, result) ==
    IF has_key(cache, segment)
    THEN {IF same_key(e[1], segment) THEN <<e[1], result>> ELSE e : e \in cache}
    ELSE cache \cup {<<segment, result>>}

\* A slip: the segments are joined as they are, unquoted.
quote_all_raw(t) == t

RECURSIVE quote_all(_)
quote_all(t) ==
    IF t = <<>> THEN <<>> ELSE <<quote_path_segment(t[1])>> \o quote_all(Tail(t))

\* A slip: a '/' is put in front of the joined segments.
_join_path_tuple_leading_slash(t) ==
    IF t = <<>> THEN <<SLASH>> ELSE <<SLASH>> \o join(quote_all(t), SLASH)

\* tuple and '/'.join([...]) or '/'
_join_path_tuple(t) ==
    LET joined == join(quote_all(t), SLASH)
    IN  IF t # <<>> /\ joined # <<>> THEN joined ELSE <<SLASH>>

(***************************************************************************)
(* Model graphs.  A graph gives every node its __parent__ (None at the     *)
(* root), its __name__ (NoName for None), whether it has __getitem__, and  *)
(* the children its __getitem__ returns, as <<node, key, child>> triples;  *)
(* a key with no triple raises KeyError.                                   *)
(***************************************************************************)
Nodes(g) == 1..Len(g.parent)

\* repoze.bfg.location.lineage: the node, its __parent__, ... up to the
\* node whose __parent__ is None.
RECURSIVE lineage(_, _)
lineage(g, model) ==
    IF model = None THEN <<>> ELSE <<model>> \o lineage(g, g.parent[model])

RECURSIVE find_root_loop(_, _, _, _)
find_root_loop(g, model, locations, k) ==
    IF k > Len(locations) THEN model
    ELSE IF g.parent[locations[k]] = None THEN locations[k]
    ELSE find_root_loop(g, model, locations, k + 1)

\* A slip: one step up instead of all the way.
find_root_one_step(g, model) ==
    IF g.parent[model] = None THEN model ELSE g.parent[model]

find_root(g, model) == find_root_loop(g, model, lineage(g, model), 1)

\* find_interface.  A node has a class and a set of provided interfaces;
\* class_or_interface is a class or an interface, by name.
Class(name) == [is_interface |-> FALSE, name |-> name]
Interface(name) == [is_interface |-> TRUE, name |-> name]

\* The classes an instance of the class is an instance of: the class and
\* its bases.
ClassBases ==
    [Site |-> {"Site", "Folder", "Model"},
     Folder |-> {"Folder", "Model"},
     Document |-> {"Document", "Model"}]

isinstance(g, location, name) == name \in ClassBases[g.class[location]]

providedBy(g, location, name) == name \in g.provides[location]

\* Lines 92-95.
test(g, class_or_interface, location) ==
    IF class_or_interface.is_interface
    THEN providedBy(g, location, class_or_interface.name)
    ELSE isinstance(g, location, class_or_interface.name)

\* Lines 96-98; falling off the end of the loop returns None.
RECURSIVE find_interface_loop(_, _, _)
find_interface_loop(g, locations, class_or_interface) ==
    IF locations = <<>> THEN None
    ELSE IF test(g, class_or_interface, Head(locations)) THEN Head(locations)
    ELSE find_interface_loop(g, Tail(locations), class_or_interface)

\* A slip: the search starts at the parent of the model.
find_interface_above(g, model, class_or_interface) ==
    find_interface_loop(g, Tail(lineage(g, model)), class_or_interface)

find_interface(g, model, class_or_interface) ==
    find_interface_loop(g, lineage(g, model), class_or_interface)

\* loc.__name__ or ''
name_or_empty(g, loc) == IF g.name[loc] = NoName THEN <<>> ELSE g.name[loc]

RECURSIVE names_of(_, _)
names_of(g, locations) ==
    IF locations = <<>> THEN <<>>
    ELSE <<name_or_empty(g, locations[1])>> \o names_of(g, Tail(locations))

RECURSIVE reverse(_)
reverse(s) == IF s = <<>> THEN <<>> ELSE Append(reverse(Tail(s)), Head(s))

_model_path_list(g, model, elements) ==
    reverse(names_of(g, lineage(g, model))) \o elements

model_path_tuple(g, model, elements) == _model_path_list(g, model, elements)

model_path(g, model, elements) ==
    _join_path_tuple(model_path_tuple(g, model, elements))

(***************************************************************************)
(* ModelGraphTraverser.__call__                                            *)
(*                                                                         *)
(* A value that may be a string or a tuple (a path argument, a match       *)
(* dictionary's traverse and subpath) carries iter, the answer to          *)
(* hasattr(value, '__iter__'): a tuple has it, a string has not.           *)
(***************************************************************************)
Str(s) == [iter |-> FALSE, s |-> s, t |-> <<>>]
Tup(t) == [iter |-> TRUE, s |-> <<>>, t |-> t]

\* ob.__getitem__ exists (no AttributeError at line 556).
has_getitem(g, ob) == g.getitem[ob]

\* getitem(segment): the child, or KeyError.
getitem(g, ob, segment) ==
    IF \E e \in g.items : e[1] = ob /\ e[2] = segment
    THEN Ok((CHOOSE e \in g.items : e[1] = ob /\ e[2] = segment)[3])
    ELSE Raise("KeyError")

\* A slip: only the bare "@@" counts as a view selector.
is_view_selector_exact(segment) == segment = <<AT, AT>>

\* segment[:2] == '@@'
is_view_selector(segment) == slice_to(segment, 2) = <<AT, AT>>

\* A slip: the slice starts at the stopping segment, vpath_tuple[i:].
subpath_at_from_stop(vpath_tuple, i) == slice_from(vpath_tuple, i)

\* vpath_tuple[i+1:]
subpath_at(vpath_tuple, i) == slice_from(vpath_tuple, i + 1)

\* vpath_tuple[:vroot_idx+i+1]
traversed_at(vpath_tuple, vroot_idx, i) == slice_to(vpath_tuple, vroot_idx + i + 1)

Result(context, view_name, subpath, traversed, vroot, vroot_tuple, root) ==
    [status |-> "ok", context |-> context, view_name |-> view_name,
     subpath |-> subpath, traversed |-> traversed, virtual_root |-> vroot,
     virtual_root_path |-> vroot_tuple, root |-> root]

\* The loop of lines 546-579 from index i on, then the return of line 581.
RECURSIVE walk(_, _, _, _, _, _, _, _, _)
walk(g, root, ob, vroot, i, vpath_tuple, vroot_idx, vroot_tuple, subpath) ==
    IF i >= Len(vpath_tuple)
    THEN Result(ob, <<>>, subpath, vpath_tuple, vroot, vroot_tuple, root)
    ELSE LET segment == vpath_tuple[i + 1]
             stop(view_name) ==
                 Result(ob, view_name, subpath_at(vpath_tuple, i),
                        traversed_at(vpath_tuple, vroot_idx, i),
                        vroot, vroot_tuple, root)
         IN  IF is_view_selector(segment) THEN stop(slice_from(segment, 2))
             ELSE IF ~has_getitem(g, ob) THEN stop(segment)
             ELSE LET next == getitem(g, ob, segment)
                  IN  IF next.status # "ok" THEN stop(segment)
                      ELSE walk(g, root, next.value,
                                IF i = vroot_idx THEN next.value ELSE vroot,
                                i + 1, vpath_tuple, vroot_idx, vroot_tuple, subpath)

\* A slip: a match dictionary without 'traverse' falls back to PATH_INFO.
path_of_path_info_fallback(environ) ==
    IF environ.has_matchdict /\ environ.matchdict.has_traverse
    THEN IF environ.matchdict.traverse.iter
         THEN LET joined == join(quote_all(environ.matchdict.traverse.t), SLASH)
              IN  IF joined # <<>> THEN joined ELSE <<SLASH>>
         ELSE environ.matchdict.traverse.s
    ELSE IF environ.has_PATH_INFO /\ environ.PATH_INFO # <<>>
         THEN environ.PATH_INFO
         ELSE <<SLASH>>

\* A slip: the index is not advanced after a successful lookup.
next_index_stuck(i) == i

\* Line 579: i += 1
next_index(i) == i + 1

\* Lines 502-521: the path and the subpath, from the match dictionary when
\* the environment has one, else from PATH_INFO.
path_of(environ) ==
    IF environ.has_matchdict
    THEN LET path == IF environ.matchdict.has_traverse
                     THEN environ.matchdict.traverse
                     ELSE Str(<<SLASH>>)
         IN  IF path.iter
             THEN LET joined == join(quote_all(path.t), SLASH)
                  IN  IF joined # <<>> THEN joined ELSE <<SLASH>>
             ELSE path.s
    ELSE IF environ.has_PATH_INFO /\ environ.PATH_INFO # <<>>
         THEN environ.PATH_INFO
         ELSE <<SLASH>>

\* A slip: the match dictionary's subpath is dropped.
subpath_of_dropped(environ) == Ok(<<>>)

subpath_of(environ) ==
    IF environ.has_matchdict
    THEN LET subpath == IF environ.matchdict.has_subpath
                        THEN environ.matchdict.subpath
                        ELSE Tup(<<>>)
         IN  IF ~subpath.iter THEN traversal_path(subpath.s) ELSE Ok(subpath.t)
    ELSE Ok(<<>>)

\* Lines 523-531.
vroot_tuple_of(environ) ==
    IF environ.has_VH_ROOT THEN traversal_path(environ.VH_ROOT) ELSE Ok(<<>>)

vpath_of(environ) ==
    IF environ.has_VH_ROOT THEN environ.VH_ROOT \o path_of(environ)
    ELSE path_of(environ)

vroot_idx_of(vroot_tuple) == Len(vroot_tuple) - 1

\* Lines 536-545.
vpath_tuple_of(vpath) ==
    IF vpath = <<SLASH>> \/ vpath = <<>> THEN Ok(<<>>) ELSE traversal_path(vpath)

ModelGraphTraverser(g, root, environ) ==
    LET subpath == subpath_of(environ)
        vroot_tuple == vroot_tuple_of(environ)
        vpath_tuple == vpath_tuple_of(vpath_of(environ))
    IN  IF subpath.status # "ok" THEN subpath
        ELSE IF vroot_tuple.status # "ok" THEN vroot_tuple
        ELSE IF vpath_tuple.status # "ok" THEN vpath_tuple
        ELSE walk(g, root, root, root, 0, vpath_tuple.value,
                  IF environ.has_VH_ROOT THEN vroot_idx_of(vroot_tuple.value) ELSE -1,
                  vroot_tuple.value, subpath.value)

(***************************************************************************)
(* traverse and find_model.  Request.blank(path) gives a request whose     *)
(* environment holds PATH_INFO = path and neither a match dictionary nor   *)
(* a virtual-host key; no ITraverser override is registered.               *)
(***************************************************************************)
NoMatchdict ==
    [has_traverse |-> FALSE, traverse |-> Str(<<>>),
     has_subpath |-> FALSE, subpath |-> Tup(<<>>)]

Request_blank(path) ==
    [has_matchdict |-> FALSE, matchdict |-> NoMatchdict,
     has_PATH_INFO |-> TRUE, PATH_INFO |-> path,
     has_VH_ROOT |-> FALSE, VH_ROOT |-> <<>>]

\* Lines 263-271: a tuple is joined into a string, the empty tuple is ''.
path_string(path) ==
    IF path.iter
    THEN IF path.t # <<>> THEN _join_path_tuple(path.t) ELSE <<>>
    ELSE path.s

\* A slip: the walk starts at the root whatever the path.
start_model_always_root(g, model, path) == find_root(g, model)

\* Lines 273-274.
start_model(g, model, path) ==
    IF path # <<>> /\ path[1] = SLASH THEN find_root(g, model) ELSE model

traverse(g, model, path) ==
    LET p == path_string(path)
    IN  ModelGraphTraverser(g, start_model(g, model, p), Request_blank(p))

\* A slip: a left-over subpath raises KeyError too.
find_model_result_strict(D) ==
    IF D.status # "ok" THEN D
    ELSE IF D.view_name # <<>> \/ D.subpath # <<>> THEN Raise("KeyError")
    ELSE Ok(D.context)

\* Lines 75-80.
find_model_result(D) ==
    IF D.status # "ok" THEN D
    ELSE IF D.view_name # <<>> THEN Raise("KeyError")
    ELSE Ok(D.context)

find_model(g, model, path) == find_model_result(traverse(g, model, path))

(***************************************************************************)
(* TraversalContextURL.__call__ (the spec's url_for).  A request is its    *)
(* environment and its application_url.                                    *)
(***************************************************************************)
\* A slip: the '/' is appended to the root's path too.
with_trailing_slash_always(path) == path \o <<SLASH>>

\* Lines 619-620.
with_trailing_slash(path) ==
    IF path # <<SLASH>> THEN path \o <<SLASH>> ELSE path

\* Lines 626-629.
trim_vroot_path(path, environ) ==
    IF environ.has_VH_ROOT /\ startswith(path, environ.VH_ROOT)
    THEN slice_from(path, Len(environ.VH_ROOT))
    ELSE path

TraversalContextURL(g, context, request) ==
    request.application_url
        \o trim_vroot_path(with_trailing_slash(model_path(g, context, <<>>)),
                           request.environ)

(***************************************************************************)
(* TraversalContextURL.virtual_root.  The request may carry the root the   *)
(* router found (request.root).                                            *)
(***************************************************************************)
virtual_root(g, context, request) ==
    IF request.environ.has_VH_ROOT
    THEN find_model(g, context, Str(request.environ.VH_ROOT))
    ELSE IF request.has_root THEN Ok(request.root)
    ELSE Ok(find_root(g, context))

(***************************************************************************)
(* Inputs.  Path strings are built from raw pieces joined by '/', with or  *)
(* without a leading '/'.                                                  *)
(***************************************************************************)
MaxPieces == 3

S_a == <<97>>
S_b == <<98>>
S_x == <<120>>
S_y == <<121>>
S_dot == <<DOT>>
S_dotdot == <<DOT, DOT>>
S_view_a == <<AT, AT, 97>>
S_view == <<AT, AT>>
S_a_b == <<97, 32, 98>>
S_ntilde == <<241>>
\* %2E, %FF, %C3%B1
Q_dot == <<PERCENT, 50, 69>>
Q_ff == <<PERCENT, 70, 70>>
Q_ntilde == <<PERCENT, 67, 51, PERCENT, 66, 49>>

Pieces == {<<>>, S_dotdot, S_a, S_b, S_view_a, S_view, Q_dot}

PieceSeqs == UNION {[1..n -> Pieces] : n \in 0..MaxPieces}

ExtraPaths ==
    {<<SLASH>> \o Q_ff,
     <<SLASH>> \o S_a \o <<SLASH>> \o Q_ff \o <<SLASH>> \o S_dotdot,
     <<SLASH>> \o S_dot \o <<SLASH>> \o S_a,
     <<SLASH>> \o Q_ntilde,
     S_a \o <<SLASH, SLASH>> \o S_b \o <<SLASH>>,
     <<SLASH>> \o S_a \o <<SLASH>> \o Q_dot \o Q_dot \o <<SLASH>> \o S_b}

PathStrings ==
    {join(ps, SLASH) : ps \in PieceSeqs}
    \cup {<<SLASH>> \o join(ps, SLASH) : ps \in PieceSeqs}
    \cup ExtraPaths

\* root -> a -> b; b has no __getitem__.
G_abc ==
    [parent |-> <<None, 1, 2>>,
     name |-> <<NoName, S_a, S_b>>,
     getitem |-> <<TRUE, TRUE, FALSE>>,
     items |-> {<<1, S_a, 2>>, <<2, S_b, 3>>}]

\* Names that need quoting, and names the path syntax gives a meaning to.
G_names ==
    [parent |-> <<None, 1, 1, 1, 1, 5>>,
     name |-> <<<<>>, S_view_a, S_dot, S_dotdot, S_a_b, S_ntilde>>,
     getitem |-> <<TRUE, TRUE, TRUE, TRUE, TRUE, FALSE>>,
     items |-> {<<1, S_view_a, 2>>, <<1, S_dot, 3>>, <<1, S_dotdot, 4>>,
                <<1, S_a_b, 5>>, <<5, S_ntilde, 6>>}]

\* Child lookups that lead back up: a's "a" is the root, a's "b" is a.
G_cycle ==
    [parent |-> <<None, 1>>,
     name |-> <<NoName, S_a>>,
     getitem |-> <<TRUE, TRUE>>,
     items |-> {<<1, S_a, 2>>, <<2, S_a, 1>>, <<2, S_b, 2>>}]

Graphs == {G_abc, G_names, G_cycle}

Environ(path_info, vh) ==
    [has_matchdict |-> FALSE, matchdict |-> NoMatchdict,
     has_PATH_INFO |-> path_info # NoName, PATH_INFO |-> path_info,
     has_VH_ROOT |-> vh # NoName, VH_ROOT |-> vh]

RoutedEnviron(matchdict, vh) ==
    [has_matchdict |-> TRUE, matchdict |-> matchdict,
     has_PATH_INFO |-> TRUE, PATH_INFO |-> <<SLASH>> \o S_b,
     has_VH_ROOT |-> vh # NoName, VH_ROOT |-> vh]

Matchdict(has_traverse, traverse_, has_subpath, subpath_) ==
    [has_traverse |-> has_traverse, traverse |-> traverse_,
     has_subpath |-> has_subpath, subpath |-> subpath_]

Absent == NoName

VHRoots ==
    {Absent, <<SLASH>>, <<SLASH>> \o S_a, <<SLASH>> \o S_a \o <<SLASH>> \o S_b}

Matchdicts ==
    LET ab == <<SLASH>> \o S_a \o <<SLASH>> \o S_b
    IN  {NoMatchdict,
         Matchdict(TRUE, Str(ab), TRUE, Tup(<<S_x, S_y>>)),
         Matchdict(TRUE, Tup(<<S_a, S_b>>), TRUE, Str(S_x \o <<SLASH>> \o S_y)),
         Matchdict(TRUE, Tup(<<>>), TRUE, Tup(<<S_x>>)),
         Matchdict(TRUE, Str(<<>>), FALSE, Tup(<<>>)),
         Matchdict(TRUE, Str(ab \o <<SLASH>> \o S_x), TRUE, Tup(<<S_y>>)),
         Matchdict(TRUE, Str(<<SLASH>> \o S_a), TRUE, Str(S_dotdot)),
         Matchdict(FALSE, Str(<<>>), TRUE, Tup(<<S_x>>))}

\* A request that came through a virtual-hosting proxy has a WSGI PATH_INFO:
\* empty, or beginning with '/'.
WsgiPaths == {p \in PathStrings : p = <<>> \/ p[1] = SLASH}

Environs(g) ==
    {Environ(p, Absent) : p \in PathStrings \cup {Absent}}
    \cup (IF g = G_abc
          THEN {Environ(p, vh) : p \in WsgiPaths, vh \in VHRoots}
               \cup {RoutedEnviron(m, vh) : m \in Matchdicts,
                                            vh \in {Absent, <<SLASH>> \o S_a}}
          ELSE {})

Models(g) == IF g = G_abc THEN Nodes(g) ELSE {1}

TuplePaths(g) ==
    {model_path_tuple(g, n, <<>>) : n \in Nodes(g)}
    \cup {<<>>, <<S_a>>, <<S_b>>, <<S_a, S_b>>, <<<<>>, S_a, S_view>>,
          <<<<>>, S_a, S_dotdot, S_dotdot>>}

PathArgs(g) ==
    {Str(p) : p \in PathStrings \cup {model_path(g, n, <<>>) : n \in Nodes(g)}}
    \cup {Tup(t) : t \in TuplePaths(g)}

\* Tuples of segments for _join_path_tuple.
MaxTuple == 3

S_a_slash_b == <<97, SLASH, 98>>

JoinSegments == {<<>>, S_a, S_b, S_a_b, S_ntilde, S_dot, S_a_slash_b}

SegmentTuples == UNION {[1..n -> JoinSegments] : n \in 0..MaxTuple}

\* Requests for TraversalContextURL.
Q_a_b == <<97, PERCENT, 50, 48, 98>>

ApplicationUrls == {<<104>>, <<104, 58, 56>>}

UrlVHRoots == VHRoots \cup {<<SLASH>> \o Q_a_b, <<SLASH>> \o S_x}

Requests ==
    {[environ |-> Environ(Absent, vh), application_url |-> u] :
        vh \in UrlVHRoots, u \in ApplicationUrls}

\* Graphs for find_root and find_interface: every node has a class and a
\* set of provided interfaces.  A chain of four, and two separate trees.
S_c == <<99>>

G_site ==
    [parent |-> <<None, 1, 2, 3>>,
     name |-> <<NoName, S_a, S_b, S_c>>,
     getitem |-> <<TRUE, TRUE, TRUE, FALSE>>,
     items |-> {<<1, S_a, 2>>, <<2, S_b, 3>>, <<3, S_c, 4>>},
     class |-> <<"Site", "Folder", "Folder", "Document">>,
     provides |-> <<{"ISite", "IContainer"}, {"IContainer"}, {"IContainer"},
                    {"IDocument"}>>]

G_forest ==
    [parent |-> <<None, 1, 2, None, 4>>,
     name |-> <<NoName, S_a, S_b, <<>>, S_a>>,
     getitem |-> <<TRUE, TRUE, FALSE, TRUE, FALSE>>,
     items |-> {<<1, S_a, 2>>, <<2, S_b, 3>>, <<4, S_a, 5>>},
     class |-> <<"Folder", "Document", "Document", "Site", "Folder">>,
     provides |-> <<{"IContainer"}, {}, {"IDocument"}, {"ISite"}, {}>>]

ClassesOrInterfaces ==
    {Class(c) : c \in {"Site", "Folder", "Document", "Model", "Other"}}
    \cup {Interface(i) : i \in {"ISite", "IContainer", "IDocument", "IOther"}}

LocationGraphs == {G_site, G_forest}

\* Threads calling quote_path_segment, and the calls they make in all.
MaxThreads == 2

MaxCalls == 3

Threads == 1..MaxThreads

QuoteSegments ==
    {Unicode(S_a_b), Bytes(S_a_b), Unicode(S_ntilde), Bytes(S_ntilde)}

IdleThread ==
    [pc |-> "idle", segment |-> Unicode(<<>>), result |-> <<>>,
     returned |-> <<>>]

\* More child lookups than any path of the inputs has segments.
MaxLookups == 8

\* The traverser's frame before the call: its locals hold nothing yet.
\* lookups counts the getitem(segment) calls of line 567.
IdleFrame ==
    [pc |-> "idle", ob |-> None, vroot |-> None, i |-> 0, lookups |-> 0,
     vpath_tuple |-> <<>>, vroot_idx |-> -1, vroot_tuple |-> <<>>,
     subpath |-> <<>>]

\* Requests for virtual_root: the environ of a traversal, with or without
\* the root on the request.
RootedRequests(g) ==
    {[environ |-> env, has_root |-> FALSE, root |-> None] :
        env \in Environs(g)}
    \cup {[environ |-> env, has_root |-> TRUE, root |-> 1] :
        env \in Environs(g)}

Pending == [status |-> "pending"]

Init ==
    /\ graph \in Graphs \cup LocationGraphs
    /\ ret = Pending
    /\ _segment_cache = {}
    /\ thread = [t \in Threads |-> IdleThread]
    /\ calls = 0
    /\ frame = IdleFrame
    /\ \/ \E p \in PathStrings :
            /\ graph = G_abc
            /\ call = [fn |-> "traversal_path", path |-> p]
       \/ \E m \in Models(graph), e \in Environs(graph) :
            /\ graph \in Graphs
            /\ call = [fn |-> "traverser", root |-> m, environ |-> e]
       \/ \E m \in Models(graph), p \in PathArgs(graph),
             f \in {"traverse", "find_model"} :
            /\ graph \in Graphs
            /\ call = [fn |-> f, model |-> m, path |-> p]
       \/ \E m \in Nodes(graph), f \in {"model_path", "model_path_tuple"} :
            /\ graph \in Graphs
            /\ call = [fn |-> f, model |-> m, elements |-> <<>>]
       \/ \E t \in SegmentTuples :
            /\ graph = G_abc
            /\ call = [fn |-> "_join_path_tuple", tuple |-> t]
       \/ \E m \in Nodes(graph), r \in Requests :
            /\ graph \in Graphs
            /\ call = [fn |-> "TraversalContextURL", context |-> m, request |-> r]
       \/ \E m \in Nodes(graph) :
            call = [fn |-> "find_root", model |-> m]
       \/ \E m \in Nodes(graph), c \in ClassesOrInterfaces :
            /\ graph \in LocationGraphs
            /\ call = [fn |-> "find_interface", model |-> m,
                       class_or_interface |-> c]
       \/ \E m \in Nodes(graph), r \in RootedRequests(graph) :
            /\ graph = G_abc
            /\ call = [fn |-> "virtual_root", context |-> m, request |-> r]

Returns(fn, value) ==
    /\ ret = Pending
    /\ call.fn = fn
    /\ ret' = value
    /\ UNCHANGED <<graph, call, _segment_cache, thread, calls, frame>>

CallTraversalPath == Returns("traversal_path", traversal_path(call.path))

CallTraverser ==
    Returns("traverser", ModelGraphTraverser(graph, call.root, call.environ))

CallTraverse == Returns("traverse", traverse(graph, call.model, call.path))

CallFindModel == Returns("find_model", find_model(graph, call.model, call.path))

CallModelPath ==
    Returns("model_path", Ok(model_path(graph, call.model, call.elements)))

CallModelPathTuple ==
    Returns("model_path_tuple",
            Ok(model_path_tuple(graph, call.model, call.elements)))

CallJoinPathTuple ==
    Returns("_join_path_tuple", Ok(_join_path_tuple(call.tuple)))

CallTraversalContextURL ==
    Returns("TraversalContextURL",
            Ok(TraversalContextURL(graph, call.context, call.request)))

CallFindRoot == Returns("find_root", Ok(find_root(graph, call.model)))

CallFindInterface ==
    Returns("find_interface",
            Ok(find_interface(graph, call.model, call.class_or_interface)))

CallVirtualRoot ==
    Returns("virtual_root", virtual_root(graph, call.context, call.request))

Next ==
    \/ CallTraversalPath
    \/ CallTraverser
    \/ CallTraverse
    \/ CallFindModel
    \/ CallModelPath
    \/ CallModelPathTuple
    \/ CallJoinPathTuple
    \/ CallTraversalContextURL
    \/ CallFindRoot
    \/ CallFindInterface
    \/ CallVirtualRoot

Spec == Init /\ [][Next]_vars

(***************************************************************************)
(* Threads in quote_path_segment, sharing _segment_cache.  A step is one   *)
(* of: the dictionary read of line 471, the computation of lines 473-476,  *)
(* the store of line 479, the return of line 480.                          *)
(***************************************************************************)
InitQuote ==
    /\ graph = G_abc
    /\ call = [fn |-> "quote_path_segment"]
    /\ ret = Pending
    /\ _segment_cache = {}
    /\ thread = [t \in Threads |-> IdleThread]
    /\ calls = 0
    /\ frame = IdleFrame

Step(t, next) ==
    /\ thread' = [thread EXCEPT ![t] = next]
    /\ UNCHANGED <<graph, call, ret, frame>>

\* A thread calls quote_path_segment(segment).
Enter(t) ==
    /\ thread[t].pc \in {"idle", "returned"}
    /\ calls < MaxCalls
    /\ calls' = calls + 1
    /\ \E segment_ \in QuoteSegments :
         Step(t, [pc |-> "try", segment |-> segment_, result |-> <<>>,
                  returned |-> <<>>])
    /\ UNCHANGED _segment_cache

\* Line 471 finds the key and returns its value.
TryHit(t) ==
    /\ thread[t].pc = "try"
    /\ has_key(_segment_cache, thread[t].segment)
    /\ Step(t, [thread[t] EXCEPT
                   !.pc = "returned",
                   !.returned = cache_get(_segment_cache, thread[t].segment)])
    /\ UNCHANGED <<_segment_cache, calls>>

\* Line 471 raises KeyError.
TryKeyError(t) ==
    /\ thread[t].pc = "try"
    /\ ~has_key(_segment_cache, thread[t].segment)
    /\ Step(t, [thread[t] EXCEPT !.pc = "except"])
    /\ UNCHANGED <<_segment_cache, calls>>

Quote(t) ==
    /\ thread[t].pc = "except"
    /\ Step(t, [thread[t] EXCEPT !.pc = "store",
                                  !.result = quote_result(thread[t].segment)])
    /\ UNCHANGED <<_segment_cache, calls>>

Store(t) ==
    /\ thread[t].pc = "store"
    /\ _segment_cache' =
           cache_set(_segment_cache, thread[t].segment, thread[t].result)
    /\ Step(t, [thread[t] EXCEPT !.pc = "return"])
    /\ UNCHANGED calls

ReturnResult(t) ==
    /\ thread[t].pc = "return"
    /\ Step(t, [thread[t] EXCEPT !.pc = "returned",
                                  !.returned = thread[t].result])
    /\ UNCHANGED <<_segment_cache, calls>>

NextQuote ==
    \E t \in Threads :
        \/ Enter(t)
        \/ TryHit(t)
        \/ TryKeyError(t)
        \/ Quote(t)
        \/ Store(t)
        \/ ReturnResult(t)

SpecQuote == InitQuote /\ [][NextQuote]_vars

(***************************************************************************)
(* ModelGraphTraverser.__call__ one loop iteration at a time: the frame    *)
(* holds the locals of lines 523-579.  The call runs on its own thread     *)
(* and nothing suspends it, so a step that can be taken is taken.          *)
(***************************************************************************)
InitWalk ==
    /\ graph \in Graphs
    /\ \E m \in Models(graph), e \in Environs(graph) :
         call = [fn |-> "traverser", root |-> m, environ |-> e]
    /\ ret = Pending
    /\ _segment_cache = {}
    /\ thread = [t \in Threads |-> IdleThread]
    /\ calls = 0
    /\ frame = IdleFrame

Frame(next, value) ==
    /\ frame' = next
    /\ ret' = value
    /\ UNCHANGED <<graph, call, _segment_cache, thread, calls>>

\* Lines 502-545: subpath, vroot_tuple and vpath_tuple are decoded, or one
\* of the traversal_path calls raises.
Decode ==
    /\ frame.pc = "idle"
    /\ LET subpath == subpath_of(call.environ)
           vroot_tuple == vroot_tuple_of(call.environ)
           vpath_tuple == vpath_tuple_of(vpath_of(call.environ))
       IN  IF subpath.status # "ok"
           THEN Frame([frame EXCEPT !.pc = "raised"], subpath)
           ELSE IF vroot_tuple.status # "ok"
           THEN Frame([frame EXCEPT !.pc = "raised"], vroot_tuple)
           ELSE IF vpath_tuple.status # "ok"
           THEN Frame([frame EXCEPT !.pc = "raised"], vpath_tuple)
           ELSE Frame([pc |-> "loop", ob |-> call.root, vroot |-> call.root,
                       i |-> 0, lookups |-> 0,
                       vpath_tuple |-> vpath_tuple.value,
                       vroot_idx |-> IF call.environ.has_VH_ROOT
                                     THEN vroot_idx_of(vroot_tuple.value)
                                     ELSE -1,
                       vroot_tuple |-> vroot_tuple.value,
                       subpath |-> subpath.value],
                      Pending)

Looping == frame.pc = "loop" /\ frame.i < Len(frame.vpath_tuple)

segment_at(f) == f.vpath_tuple[f.i + 1]

\* The early returns of lines 548-554, 558-564 and 569-575.
ReturnEarly(view_name, lookups) ==
    Frame([frame EXCEPT !.pc = "returned", !.lookups = lookups],
          Result(frame.ob, view_name, subpath_at(frame.vpath_tuple, frame.i),
                 traversed_at(frame.vpath_tuple, frame.vroot_idx, frame.i),
                 frame.vroot, frame.vroot_tuple, call.root))

\* Lines 547-554.
LoopViewSelector ==
    /\ Looping
    /\ is_view_selector(segment_at(frame))
    /\ ReturnEarly(slice_from(segment_at(frame), 2), frame.lookups)

\* Lines 555-564.
LoopAttributeError ==
    /\ Looping
    /\ ~is_view_selector(segment_at(frame))
    /\ ~has_getitem(graph, frame.ob)
    /\ ReturnEarly(segment_at(frame), frame.lookups)

\* Lines 566-575.
LoopKeyError ==
    /\ Looping
    /\ ~is_view_selector(segment_at(frame))
    /\ has_getitem(graph, frame.ob)
    /\ frame.lookups < MaxLookups
    /\ getitem(graph, frame.ob, segment_at(frame)).status # "ok"
    /\ ReturnEarly(segment_at(frame), frame.lookups + 1)

\* Lines 566-567 and 576-579.
LoopNext ==
    /\ Looping
    /\ ~is_view_selector(segment_at(frame))
    /\ has_getitem(graph, frame.ob)
    /\ frame.lookups < MaxLookups
    /\ getitem(graph, frame.ob, segment_at(frame)).status = "ok"
    /\ LET next == getitem(graph, frame.ob, segment_at(frame)).value
       IN  Frame([frame EXCEPT
                    !.vroot = IF frame.i = frame.vroot_idx THEN next
                              ELSE frame.vroot,
                    !.ob = next,
                    !.i = next_index(frame.i),
                    !.lookups = frame.lookups + 1],
                 Pending)

\* Lines 581-583.
ReturnWalked ==
    /\ frame.pc = "loop"
    /\ frame.i >= Len(frame.vpath_tuple)
    /\ Frame([frame EXCEPT !.pc = "returned"],
             Result(frame.ob, <<>>, frame.subpath, frame.vpath_tuple,
                    frame.vroot, frame.vroot_tuple, call.root))

NextWalk ==
    \/ Decode
    \/ LoopViewSelector
    \/ LoopAttributeError
    \/ LoopKeyError
    \/ LoopNext
    \/ ReturnWalked

SpecWalk == InitWalk /\ [][NextWalk]_vars /\ WF_vars(NextWalk)

(***************************************************************************)
(* Reference notions the properties are stated with.  They read the graph  *)
(* and the path directly and use none of the traverser's bookkeeping.      *)
(***************************************************************************)
Returned == ret # Pending

\* The node reached from n by looking up segs one after the other, None
\* when a node on the way has no __getitem__ or not that key.
RECURSIVE Descend(_, _, _)
Descend(g, n, segs) ==
    IF segs = <<>> \/ n = None THEN n
    ELSE IF g.getitem[n] /\ \E e \in g.items : e[1] = n /\ e[2] = segs[1]
         THEN Descend(g, (CHOOSE e \in g.items : e[1] = n /\ e[2] = segs[1])[3],
                      Tail(segs))
         ELSE None

IsViewMarker(seg) == Len(seg) >= 2 /\ seg[1] = AT /\ seg[2] = AT

\* The walk from n stops at segs[k]: a view marker, or a segment that the
\* node reached by the segments before it cannot resolve.
StopsAt(g, n, segs, k) ==
    IsViewMarker(segs[k]) \/ Descend(g, n, SubSeq(segs, 1, k)) = None

Stops(g, n, segs) == \E k \in 1..Len(segs) : StopsAt(g, n, segs, k)

FirstStop(g, n, segs) ==
    CHOOSE k \in 1..Len(segs) :
        StopsAt(g, n, segs, k) /\ \A h \in 1..(k - 1) : ~StopsAt(g, n, segs, h)

\* The traverser call decoded its subpath, virtual root and path.
Decoded(environ) ==
    /\ subpath_of(environ).status = "ok"
    /\ vroot_tuple_of(environ).status = "ok"
    /\ vpath_tuple_of(vpath_of(environ)).status = "ok"

Segments(environ) == vpath_tuple_of(vpath_of(environ)).value

TraverserReturned == Returned /\ call.fn = "traverser"

\* The root has no name, and every other node is what its parent's
\* __getitem__ returns for its name.
WellFormed(g) ==
    /\ \A n \in Nodes(g) :
         g.parent[n] = None => g.name[n] \in {NoName, <<>>}
    /\ \A n \in Nodes(g) :
         g.parent[n] # None =>
             /\ g.name[n] # NoName
             /\ g.getitem[g.parent[n]]
             /\ \A e \in g.items :
                  (e[1] = g.parent[n] /\ e[2] = g.name[n]) => e[3] = n
             /\ \E e \in g.items : e[1] = g.parent[n] /\ e[2] = g.name[n]

RECURSIVE Up(_, _, _)
Up(g, n, k) == IF k = 0 \/ n = None THEN n ELSE Up(g, g.parent[n], k - 1)

\* The node of n's parent chain that has no parent.
RootOf(g, n) ==
    CHOOSE r \in Nodes(g) :
        g.parent[r] = None /\ \E k \in 0..Len(g.parent) : Up(g, n, k) = r

(***************************************************************************)
(* C1.  Round trip: in a well-formed graph, find_model from the root       *)
(* resolves the path string and the path tuple of every node N to N,       *)
(* whatever the names of the nodes are.                                    *)
(***************************************************************************)
C1_RoundTripAnyNames ==
    (Returned /\ call.fn = "find_model" /\ WellFormed(graph)
     /\ call.model = RootOf(graph, call.model)) =>
        \A n \in Nodes(graph) :
            (\/ call.path = Str(model_path(graph, n, <<>>))
             \/ call.path = Tup(model_path_tuple(graph, n, <<>>))) =>
                (ret.status = "ok" /\ ret.value = n)

(***************************************************************************)
(* C2.  A missing child or a node without child lookup never makes the     *)
(* traverser fail: the result has context = the node reached so far,       *)
(* view_name = the segment that did not resolve, unchanged, and subpath =  *)
(* the segments strictly after it.                                         *)
(***************************************************************************)
C2_MissingChildStops ==
    (TraverserReturned /\ Decoded(call.environ)) =>
        LET segs == Segments(call.environ)
        IN  /\ ret.status = "ok"
            /\ Stops(graph, call.root, segs) =>
                 LET k == FirstStop(graph, call.root, segs)
                 IN  ~IsViewMarker(segs[k]) =>
                        /\ ret.context =
                               Descend(graph, call.root, SubSeq(segs, 1, k - 1))
                        /\ ret.view_name = segs[k]
                        /\ ret.subpath = SubSeq(segs, k + 1, Len(segs))

\* Under the virtual root /a, a has no child "a": the walk stops there
\* with segments left over.
C2_Witness ==
    /\ TraverserReturned
    /\ graph = G_abc
    /\ call.environ.has_VH_ROOT
    /\ ret.status = "ok"
    /\ ret.context = 2
    /\ ret.view_name = S_a
    /\ ret.subpath = <<S_b>>

(***************************************************************************)
(* C3.  With or without a virtual-host key, traversed is exactly the       *)
(* segments consumed to reach context from the physical root: looking      *)
(* them up from root gives context, and when the walk stops early          *)
(* traversed holds neither the stopping segment nor a later one.           *)
(***************************************************************************)
C3_TraversedReachesContext ==
    (TraverserReturned /\ ret.status = "ok") =>
        LET segs == Segments(call.environ)
        IN  /\ Descend(graph, call.root, ret.traversed) = ret.context
            /\ Stops(graph, call.root, segs) =>
                 ret.traversed =
                     SubSeq(segs, 1, FirstStop(graph, call.root, segs) - 1)

(***************************************************************************)
(* C4.  At a segment that begins with @@ the walk stops without looking    *)
(* it up: context = the last node reached, view_name = the segment         *)
(* without its @@, subpath = the segments after it.                        *)
(***************************************************************************)
C4_ViewMarkerStops ==
    (TraverserReturned /\ Decoded(call.environ)) =>
        LET segs == Segments(call.environ)
        IN  Stops(graph, call.root, segs) =>
                LET k == FirstStop(graph, call.root, segs)
                IN  IsViewMarker(segs[k]) =>
                       /\ ret.status = "ok"
                       /\ ret.context =
                              Descend(graph, call.root, SubSeq(segs, 1, k - 1))
                       /\ ret.view_name = SubSeq(segs[k], 3, Len(segs[k]))
                       /\ ret.subpath = SubSeq(segs, k + 1, Len(segs))

\* The root has a child stored under "@@a", and the walk still stops at
\* the root with view_name "a".
C4_Witness ==
    /\ TraverserReturned
    /\ \E e \in graph.items : e[1] = call.root /\ e[2] = S_view_a
    /\ ret.status = "ok"
    /\ Segments(call.environ) = <<S_view_a, S_b>>
    /\ ret.context = call.root
    /\ ret.view_name = S_a
    /\ ret.subpath = <<S_b>>

(***************************************************************************)
(* C5.  When every normalized segment resolves by child lookup (the empty  *)
(* path included): context = the final node, view_name = '', traversed =   *)
(* all the segments, root = the start node, subpath = the match            *)
(* dictionary's subpath when it has one, else empty.                       *)
(***************************************************************************)
RoutedSubpath(environ) ==
    IF environ.has_matchdict /\ environ.matchdict.has_subpath
    THEN IF environ.matchdict.subpath.iter
         THEN environ.matchdict.subpath.t
         ELSE traversal_path(environ.matchdict.subpath.s).value
    ELSE <<>>

C5_FullWalk ==
    (TraverserReturned /\ Decoded(call.environ)) =>
        LET segs == Segments(call.environ)
        IN  ~Stops(graph, call.root, segs) =>
               /\ ret.status = "ok"
               /\ ret.context = Descend(graph, call.root, segs)
               /\ ret.view_name = <<>>
               /\ ret.traversed = segs
               /\ ret.root = call.root
               /\ ret.subpath = RoutedSubpath(call.environ)

\* A routed request whose traverse path resolves to b and whose match
\* dictionary gives the subpath as a string.
C5_Witness ==
    /\ TraverserReturned
    /\ call.environ.has_matchdict
    /\ call.environ.matchdict.has_subpath
    /\ ~call.environ.matchdict.subpath.iter
    /\ ret.status = "ok"
    /\ ret.context = 3
    /\ ret.view_name = <<>>
    /\ ret.traversed = <<S_a, S_b>>
    /\ ret.subpath = <<S_x, S_y>>

(***************************************************************************)
(* C6.  find_model raises KeyError exactly when the traversal of the path  *)
(* gives a non-empty view_name, and otherwise returns the traversal's      *)
(* context; for the empty string and the empty sequence it returns the     *)
(* node it was given.                                                      *)
(***************************************************************************)
C6_KeyErrorIffViewName ==
    (Returned /\ call.fn = "find_model") =>
        LET D == traverse(graph, call.model, call.path)
        IN  /\ D.status = "ok" =>
                 /\ (ret.status = "KeyError") <=> (D.view_name # <<>>)
                 /\ D.view_name = <<>> =>
                        (ret.status = "ok" /\ ret.value = D.context)
            /\ D.status # "ok" => ret.status = D.status
            /\ (call.path = Str(<<>>) \/ call.path = Tup(<<>>)) =>
                   (ret.status = "ok" /\ ret.value = call.model)

\* /a/a from the root: a has no child "a", the traversal's view_name is
\* "a" and find_model raises KeyError.
C6_Witness ==
    /\ Returned
    /\ call.fn = "find_model"
    /\ graph = G_abc
    /\ call.path = Str(<<SLASH>> \o S_a \o <<SLASH>> \o S_a)
    /\ traverse(graph, call.model, call.path).view_name = S_a
    /\ ret.status = "KeyError"

(***************************************************************************)
(* C7.  When find_model returns normally, every normalized segment of the  *)
(* path was consumed by a successful child lookup and the node returned    *)
(* is the one the last lookup reached: no segment is left unresolved.      *)
(***************************************************************************)
C7_ReturnsOnlyResolvedPaths ==
    (Returned /\ call.fn = "find_model" /\ ret.status = "ok") =>
        LET p == path_string(call.path)
            start == IF p # <<>> /\ p[1] = SLASH
                     THEN RootOf(graph, call.model) ELSE call.model
            segs == vpath_tuple_of(p).value
        IN  /\ ~Stops(graph, start, segs)
            /\ ret.value = Descend(graph, start, segs)

(***************************************************************************)
(* C8.  traverse and find_model start the walk at find_root(model) when    *)
(* the path is absolute (a string beginning with '/', a sequence whose     *)
(* first element is the empty string) and at model itself when it is       *)
(* relative or empty; the result's root is that start node.                *)
(***************************************************************************)
IsAbsolute(path) ==
    IF path.iter
    THEN path.t # <<>> /\ path.t[1] = <<>>
    ELSE path.s # <<>> /\ path.s[1] = SLASH

StartNode(g, model, path) ==
    IF IsAbsolute(path) THEN RootOf(g, model) ELSE model

C8_StartNode ==
    /\ (Returned /\ call.fn = "traverse" /\ ret.status = "ok") =>
           /\ ret.root = StartNode(graph, call.model, call.path)
           /\ ret.context =
                  Descend(graph, StartNode(graph, call.model, call.path),
                          ret.traversed)
    /\ (Returned /\ call.fn = "find_model" /\ ret.status = "ok") =>
           \E k \in 0..Len(vpath_tuple_of(path_string(call.path)).value) :
               ret.value =
                   Descend(graph, StartNode(graph, call.model, call.path),
                           SubSeq(vpath_tuple_of(path_string(call.path)).value,
                                  1, k))

\* From b, the absolute tuple ('', 'a') is resolved from the root.
C8_Witness ==
    /\ Returned
    /\ call.fn = "traverse"
    /\ graph = G_abc
    /\ call.model = 3
    /\ call.path = Tup(<<<<>>, S_a>>)
    /\ ret.status = "ok"
    /\ ret.root = 1
    /\ ret.context = 2

\* From a, the relative string "b" is resolved from a.
C8_WitnessRelative ==
    /\ Returned
    /\ call.fn = "find_model"
    /\ graph = G_abc
    /\ call.model = 2
    /\ call.path = Str(S_b)
    /\ ret.status = "ok"
    /\ ret.value = 3

(***************************************************************************)
(* C9.  traversal_path of a path string is the left-to-right fold of its   *)
(* '/'-separated pieces over an empty accumulator.                         *)
(***************************************************************************)
NonEmptyPieces(path) == SelectSeq(split(path, SLASH), LAMBDA piece : piece # <<>>)

DropLast(acc) == IF acc = <<>> THEN <<>> ELSE SubSeq(acc, 1, Len(acc) - 1)

\* The fold as the claim words it: the piece itself is compared with "."
\* and "..", and any other piece is appended unquoted and decoded.
RECURSIVE FoldRaw(_, _)
FoldRaw(pieces, acc) ==
    IF pieces = <<>> THEN acc
    ELSE FoldRaw(Tail(pieces),
                 IF Head(pieces) = <<>> \/ Head(pieces) = <<DOT>> THEN acc
                 ELSE IF Head(pieces) = <<DOT, DOT>> THEN DropLast(acc)
                 ELSE Append(acc, decode_utf8(unquote(Head(pieces)))))

\* The fold with the comparisons made on the URL-unquoted piece.
RECURSIVE FoldUnquoted(_, _)
FoldUnquoted(pieces, acc) ==
    IF pieces = <<>> THEN acc
    ELSE LET u == unquote(Head(pieces))
         IN  FoldUnquoted(Tail(pieces),
                          IF u = <<>> \/ u = <<DOT>> THEN acc
                          ELSE IF u = <<DOT, DOT>> THEN DropLast(acc)
                          ELSE Append(acc, decode_utf8(u)))

NoDotSegments(t) ==
    \A k \in 1..Len(t) : t[k] \notin {<<>>, <<DOT>>, <<DOT, DOT>>}

\* C9 as stated: an empty piece or "." leaves the accumulator unchanged,
\* ".." removes its last element, any other piece is appended in decoded
\* form; the result has no empty, "." or ".." segment.
C9_FoldOfRawPieces ==
    (Returned /\ call.fn = "traversal_path" /\ ret.status = "ok") =>
        /\ ret.value = FoldRaw(split(call.path, SLASH), <<>>)
        /\ NoDotSegments(ret.value)

\* C9 as amended: the comparisons are made on the URL-unquoted piece.  The
\* result is the fold of the non-empty pieces alone, so leading, trailing
\* and doubled slashes do not change it, and it has no empty, "." or ".."
\* segment.
C9_FoldOfUnquotedPieces ==
    (Returned /\ call.fn = "traversal_path" /\ ret.status = "ok") =>
        /\ ret.value = FoldUnquoted(split(call.path, SLASH), <<>>)
        /\ ret.value = FoldUnquoted(NonEmptyPieces(call.path), <<>>)
        /\ NoDotSegments(ret.value)

\* /a/%2E%2E/b decodes to (b): the quoted ".." removed "a".
C9_Witness ==
    /\ Returned
    /\ call.fn = "traversal_path"
    /\ call.path = <<SLASH>> \o S_a \o <<SLASH>> \o Q_dot \o Q_dot \o <<SLASH>> \o S_b
    /\ ret.status = "ok"
    /\ ret.value = <<S_b>>

(***************************************************************************)
(* C10.  A ".." met while the accumulator is empty makes traversal_path    *)
(* raise IndexError, and the traverser, traverse and find_model raise it   *)
(* too for every path and virtual root that decode this way: no result is  *)
(* returned.                                                               *)
(***************************************************************************)
\* The pieces reach a ".." at depth 0 before any piece fails to decode.
RECURSIVE UnderflowsFrom(_, _)
UnderflowsFrom(pieces, depth) ==
    IF pieces = <<>> THEN FALSE
    ELSE LET u == unquote(Head(pieces))
         IN  IF u = <<>> \/ u = <<DOT>> THEN UnderflowsFrom(Tail(pieces), depth)
             ELSE IF u = <<DOT, DOT>>
             THEN depth = 0 \/ UnderflowsFrom(Tail(pieces), depth - 1)
             ELSE valid_utf8(u) /\ UnderflowsFrom(Tail(pieces), depth + 1)

Underflows(path) == UnderflowsFrom(split(path, SLASH), 0)

C10_UnderflowRaises ==
    /\ (Returned /\ call.fn = "traversal_path" /\ Underflows(call.path)) =>
           ret.status = "IndexError"
    /\ (TraverserReturned
        /\ subpath_of(call.environ).status # "TypeError"
        /\ vroot_tuple_of(call.environ).status # "TypeError"
        /\ Underflows(vpath_of(call.environ))) =>
           ret.status = "IndexError"
    /\ (Returned /\ call.fn \in {"traverse", "find_model"}
        /\ Underflows(path_string(call.path))) =>
           ret.status = "IndexError"

\* Virtual root /a, PATH_INFO /../..: the second ".." finds nothing to
\* delete.
C10_Witness ==
    /\ TraverserReturned
    /\ call.environ.has_VH_ROOT
    /\ call.environ.VH_ROOT = <<SLASH>> \o S_a
    /\ call.environ.PATH_INFO = <<SLASH>> \o S_dotdot \o <<SLASH>> \o S_dotdot
    /\ ret.status = "IndexError"

(***************************************************************************)
(* C11.  _join_path_tuple (the spec's join_segments) of the empty          *)
(* sequence is "/"; of a non-empty sequence of non-empty segments it is    *)
(* the quoted segments separated by "/".                                   *)
(***************************************************************************)
JoinReturned == Returned /\ call.fn = "_join_path_tuple"

NonEmptySegments(t) == t # <<>> /\ \A k \in 1..Len(t) : t[k] # <<>>

\* The quoted segments, each followed by "/".
RECURSIVE QuotedWithSlashes(_)
QuotedWithSlashes(t) ==
    IF t = <<>> THEN <<>>
    ELSE url_quote(encode_utf8(Head(t))) \o <<SLASH>> \o QuotedWithSlashes(Tail(t))

\* C11 as stated: the joined string of non-empty segments is "/" followed
\* by the quoted segments separated by "/" (("foo","bar") gives /foo/bar).
C11_JoinHasLeadingSlash ==
    JoinReturned =>
        /\ call.tuple = <<>> => ret.value = <<SLASH>>
        /\ NonEmptySegments(call.tuple) =>
               ret.value \o <<SLASH>> = <<SLASH>> \o QuotedWithSlashes(call.tuple)

\* C11 as amended: nothing is put in front; ("a","b") gives a/b, and only
\* a leading empty segment gives a leading "/".
C11_JoinPrefixesNothing ==
    JoinReturned =>
        /\ call.tuple = <<>> => ret.value = <<SLASH>>
        /\ NonEmptySegments(call.tuple) =>
               ret.value \o <<SLASH>> = QuotedWithSlashes(call.tuple)
        /\ (Len(call.tuple) >= 2 /\ call.tuple[1] = <<>>
            /\ NonEmptySegments(Tail(call.tuple))) =>
               ret.value \o <<SLASH>> =
                   <<SLASH>> \o QuotedWithSlashes(Tail(call.tuple))

\* ("a b", "b") joins to a%20b/b.
C11_Witness ==
    /\ JoinReturned
    /\ call.tuple = <<S_a_b, S_b>>
    /\ ret.value = <<97, PERCENT, 50, 48, 98, SLASH, 98>>

(***************************************************************************)
(* C12.  traversal_path(_join_path_tuple(S)) = S for every normalized      *)
(* sequence S (no empty, "." or ".." entry), the empty one included.       *)
(***************************************************************************)
C12_DecodeOfJoin ==
    (JoinReturned /\ NoDotSegments(call.tuple)) =>
        LET decoded == traversal_path(ret.value)
        IN  decoded.status = "ok" /\ decoded.value = call.tuple

\* A segment holding a "/" and a non-ASCII one come back as they were.
C12_Witness ==
    /\ JoinReturned
    /\ call.tuple = <<S_a_slash_b, S_ntilde>>
    /\ traversal_path(ret.value).status = "ok"
    /\ traversal_path(ret.value).value = <<S_a_slash_b, S_ntilde>>

(***************************************************************************)
(* C13.  The path string round-trips through decode then encode: for an    *)
(* already-normalized absolute path string P,                              *)
(* _join_path_tuple(traversal_path(P)) = P.                                *)
(***************************************************************************)
\* P begins with "/" and is "/" itself or has, after that "/", only pieces
\* that are not empty and do not unquote to "." or "..".
NormalizedAbsolute(P) ==
    /\ P # <<>>
    /\ P[1] = SLASH
    /\ \/ P = <<SLASH>>
       \/ LET pieces == split(Tail(P), SLASH)
          IN  \A k \in 1..Len(pieces) :
                  /\ pieces[k] # <<>>
                  /\ unquote(pieces[k]) \notin {<<DOT>>, <<DOT, DOT>>}

\* Every piece of P is the quoted form of what it decodes to.
CanonicallyQuoted(P) ==
    P = <<SLASH>> \/
    LET pieces == split(Tail(P), SLASH)
    IN  \A k \in 1..Len(pieces) :
            /\ valid_utf8(unquote(pieces[k]))
            /\ url_quote(encode_utf8(decode_utf8(unquote(pieces[k])))) = pieces[k]

DecodeReturned == Returned /\ call.fn = "traversal_path"

\* C13 as stated.
C13_JoinOfDecode ==
    (DecodeReturned /\ ret.status = "ok" /\ NormalizedAbsolute(call.path)) =>
        _join_path_tuple(ret.value) = call.path

\* C13 as amended: the decoded tuple has no leading empty segment, so its
\* join lacks P's leading "/"; with the empty segment put back in front the
\* join is P, provided P's pieces are in quoted form.
C13_JoinOfDecodeWithRoot ==
    (DecodeReturned /\ ret.status = "ok" /\ NormalizedAbsolute(call.path)
     /\ CanonicallyQuoted(call.path)) =>
        /\ _join_path_tuple(<<<<>>>> \o ret.value) = call.path
        /\ call.path # <<SLASH>> =>
               <<SLASH>> \o _join_path_tuple(ret.value) = call.path

\* /a/b decodes to (a, b), which joins to a/b.
C13_Witness ==
    /\ DecodeReturned
    /\ call.path = <<SLASH>> \o S_a \o <<SLASH>> \o S_b
    /\ ret.status = "ok"
    /\ _join_path_tuple(ret.value) = S_a \o <<SLASH>> \o S_b
    /\ _join_path_tuple(<<<<>>>> \o ret.value) = call.path


(***************************************************************************)
(* C14.  In every result of the traverser, looking up virtual_root_path    *)
(* segment by segment from the root gives the node reported as             *)
(* virtual_root; without a virtual-host key virtual_root is the root and   *)
(* virtual_root_path is empty.                                             *)
(***************************************************************************)
C14_VirtualRootPathReachesVirtualRoot ==
    (TraverserReturned /\ ret.status = "ok") =>
        /\ Descend(graph, ret.root, ret.virtual_root_path) = ret.virtual_root
        /\ ~call.environ.has_VH_ROOT =>
               (ret.virtual_root = ret.root /\ ret.virtual_root_path = <<>>)

(***************************************************************************)
(* C15.  With a virtual-host key in the environment, every result of the   *)
(* traverser has at least as many traversed segments as virtual_root_path  *)
(* has.                                                                    *)
(***************************************************************************)
C15_TraversedCoversVirtualRootPath ==
    (TraverserReturned /\ ret.status = "ok" /\ call.environ.has_VH_ROOT) =>
        Len(ret.traversed) >= Len(ret.virtual_root_path)


(***************************************************************************)
(* C16.  Path source selection: the traverser takes its path from the      *)
(* match dictionary only when the environment has a match dictionary with  *)
(* a 'traverse' key; in every other case it reads PATH_INFO, '/' when      *)
(* PATH_INFO is absent, and the subpath is empty.                          *)
(***************************************************************************)
PathInfoOf(environ) ==
    IF environ.has_PATH_INFO /\ environ.PATH_INFO # <<>>
    THEN environ.PATH_INFO ELSE <<SLASH>>

\* The 'traverse' value as a path string; the trailing "/" of a joined
\* tuple does not change what the string decodes to.
TraverseOf(environ) ==
    LET traverse_ == environ.matchdict.traverse
    IN  IF ~traverse_.iter THEN traverse_.s
        ELSE IF traverse_.t = <<>> THEN <<SLASH>>
        ELSE QuotedWithSlashes(traverse_.t)

\* The path and the subpath as the claim has them.
ClaimedPath(environ) ==
    IF environ.has_matchdict /\ environ.matchdict.has_traverse
    THEN TraverseOf(environ) ELSE PathInfoOf(environ)

ClaimedSubpath(environ) ==
    IF environ.has_matchdict /\ environ.matchdict.has_traverse
    THEN RoutedSubpath(environ) ELSE <<>>

\* The path and the subpath of lines 502-521: a match dictionary without
\* 'traverse' gives '/', and its subpath is used all the same.
RoutedPath(environ) ==
    IF ~environ.has_matchdict THEN PathInfoOf(environ)
    ELSE IF environ.matchdict.has_traverse THEN TraverseOf(environ)
    ELSE <<SLASH>>

\* The segments of path behind the virtual-host prefix.
SegmentsOf(environ, path) ==
    LET vpath == IF environ.has_VH_ROOT THEN environ.VH_ROOT \o path ELSE path
    IN  IF vpath = <<>> THEN Ok(<<>>) ELSE traversal_path(vpath)

\* Context, view name and subpath of the walk over segs from root.
Outcome(g, root, segs, subpath) ==
    IF Stops(g, root, segs)
    THEN LET k == FirstStop(g, root, segs)
         IN  [context |-> Descend(g, root, SubSeq(segs, 1, k - 1)),
              view_name |-> IF IsViewMarker(segs[k])
                            THEN SubSeq(segs[k], 3, Len(segs[k]))
                            ELSE segs[k],
              subpath |-> SubSeq(segs, k + 1, Len(segs))]
    ELSE [context |-> Descend(g, root, segs), view_name |-> <<>>,
          subpath |-> subpath]

ResultIs(g, root, environ, path, subpath) ==
    SegmentsOf(environ, path).status = "ok" =>
        /\ ret.status = "ok"
        /\ [context |-> ret.context, view_name |-> ret.view_name,
            subpath |-> ret.subpath]
               = Outcome(g, root, SegmentsOf(environ, path).value, subpath)

\* C16 as stated.
C16_PathInfoUnlessTraverse ==
    (TraverserReturned /\ subpath_of(call.environ).status = "ok"
     /\ vroot_tuple_of(call.environ).status = "ok") =>
        ResultIs(graph, call.root, call.environ, ClaimedPath(call.environ),
                 ClaimedSubpath(call.environ))

\* C16 as amended: with a match dictionary PATH_INFO is never read, the
\* path is the 'traverse' value or '/', the subpath the dictionary's.
C16_MatchdictOverridesPathInfo ==
    (TraverserReturned /\ subpath_of(call.environ).status = "ok"
     /\ vroot_tuple_of(call.environ).status = "ok") =>
        ResultIs(graph, call.root, call.environ, RoutedPath(call.environ),
                 RoutedSubpath(call.environ))

\* A match dictionary with a subpath and no 'traverse', PATH_INFO '/b',
\* traverser on a: the context is a, not b, and the subpath is kept.
C16_Witness ==
    /\ TraverserReturned
    /\ call.root = 2
    /\ call.environ.has_matchdict
    /\ ~call.environ.matchdict.has_traverse
    /\ call.environ.PATH_INFO = <<SLASH>> \o S_b
    /\ ~call.environ.has_VH_ROOT
    /\ ret.status = "ok"
    /\ ret.context = 2
    /\ ret.view_name = <<>>
    /\ ret.subpath = <<S_x>>


(***************************************************************************)
(* C17.  TraversalContextURL (url_for) returns the application URL         *)
(* followed by P: the canonical path of the context, with a trailing "/"   *)
(* unless it is exactly "/", and with the raw virtual-host value removed   *)
(* from its front when the key is present and P starts with it.            *)
(***************************************************************************)
\* The quoted names from the root down to n, joined by "/".
RECURSIVE NamesJoined(_, _)
NamesJoined(g, n) ==
    LET name == IF g.name[n] = NoName THEN <<>>
                ELSE url_quote(encode_utf8(g.name[n]))
    IN  IF g.parent[n] = None THEN name
        ELSE NamesJoined(g, g.parent[n]) \o <<SLASH>> \o name

CanonicalPath(g, n) ==
    IF NamesJoined(g, n) = <<>> THEN <<SLASH>> ELSE NamesJoined(g, n)

UrlReturned == Returned /\ call.fn = "TraversalContextURL"

C17_UrlIsApplicationUrlPlusPath ==
    UrlReturned =>
        LET canonical == CanonicalPath(graph, call.context)
            P == IF canonical = <<SLASH>> THEN canonical
                 ELSE canonical \o <<SLASH>>
            environ == call.request.environ
            vh == environ.VH_ROOT
            starts == /\ environ.has_VH_ROOT
                      /\ Len(vh) <= Len(P)
                      /\ \A k \in 1..Len(vh) : P[k] = vh[k]
            path == IF starts THEN SubSeq(P, Len(vh) + 1, Len(P)) ELSE P
        IN  /\ ret.status = "ok"
            /\ ret.value = call.request.application_url \o path

\* Node b of root -> a -> b behind the virtual root /a: the URL is h/b/.
C17_Witness ==
    /\ UrlReturned
    /\ graph = G_abc
    /\ call.context = 3
    /\ call.request.environ.has_VH_ROOT
    /\ call.request.environ.VH_ROOT = <<SLASH>> \o S_a
    /\ call.request.application_url = <<104>>
    /\ ret.value = <<104, SLASH, 98, SLASH>>


(***************************************************************************)
(* C18.  In a graph without a cycle of parent references find_root         *)
(* returns, for every node, the one node of its lineage that has no        *)
(* parent (the node itself when it has none), and                          *)
(* find_root(find_root(n)) = find_root(n).                                 *)
(***************************************************************************)
\* n's parent chain ends: some number of steps up reaches None.
ParentChainEnds(g, n) == \E k \in 1..Len(g.parent) : Up(g, n, k) = None

InLineage(g, n, m) == \E k \in 0..Len(g.parent) : Up(g, n, k) = m /\ m # None

C18_FindRootIsTheParentlessNode ==
    (Returned /\ call.fn = "find_root" /\ ParentChainEnds(graph, call.model)) =>
        /\ ret.status = "ok"
        /\ Len(lineage(graph, call.model)) <= Len(graph.parent)
        /\ InLineage(graph, call.model, ret.value)
        /\ graph.parent[ret.value] = None
        /\ \A m \in Nodes(graph) :
             (InLineage(graph, call.model, m) /\ graph.parent[m] = None) =>
                 m = ret.value
        /\ graph.parent[call.model] = None => ret.value = call.model
        /\ find_root(graph, ret.value) = ret.value

\* From the leaf of the second tree of the forest the root is that tree's.
C18_Witness ==
    /\ Returned
    /\ call.fn = "find_root"
    /\ graph = G_forest
    /\ call.model = 5
    /\ ret.value = 4


(***************************************************************************)
(* C19.  find_interface returns the nearest node of the lineage (the node  *)
(* itself first, then its parents in order) that satisfies the test, and   *)
(* None when no node of the lineage satisfies it.                          *)
(***************************************************************************)
\* Node n is an instance of the class, or provides the interface.
Satisfies(g, n, c) ==
    \/ ~c.is_interface /\ c.name \in ClassBases[g.class[n]]
    \/ c.is_interface /\ c.name \in g.provides[n]

\* The numbers of steps up from n that reach a satisfying node.
MatchingSteps(g, n, c) ==
    {k \in 0..Len(g.parent) : Up(g, n, k) # None /\ Satisfies(g, Up(g, n, k), c)}

FindInterfaceReturned == Returned /\ call.fn = "find_interface"

C19_FindInterfaceIsNearestMatch ==
    FindInterfaceReturned =>
        LET steps == MatchingSteps(graph, call.model, call.class_or_interface)
        IN  /\ ret.status = "ok"
            /\ steps = {} => ret.value = None
            /\ steps # {} =>
                 \E k \in steps :
                     /\ ret.value = Up(graph, call.model, k)
                     /\ \A h \in steps : k <= h

\* From the document at the bottom of the chain, the nearest Folder is the
\* parent although the grandparent and the root are Folders too.
C19_Witness ==
    /\ FindInterfaceReturned
    /\ graph = G_site
    /\ call.model = 4
    /\ call.class_or_interface = Class("Folder")
    /\ MatchingSteps(graph, 4, Class("Folder")) = {1, 2, 3}
    /\ ret.value = 3

\* No node above the document provides IOther: the result is None.
C19_WitnessNone ==
    /\ FindInterfaceReturned
    /\ call.class_or_interface = Interface("IOther")
    /\ ret.value = None


(***************************************************************************)
(* C20.  Under any interleaving of quote_path_segment calls of several     *)
(* threads sharing _segment_cache, every call returns the quoted form of   *)
(* its own input and every cache entry maps its key to the quoted form of  *)
(* that key.                                                               *)
(***************************************************************************)
\* The quoted form: UTF-8 first for a unicode object, then percent-quoting.
Quoted(seg) ==
    url_quote(IF seg.unicode THEN encode_utf8(seg.s) ELSE seg.s)

C20_CacheAndReturnsAreQuotedForms ==
    /\ \A t \in Threads :
         thread[t].pc = "returned" =>
             thread[t].returned = Quoted(thread[t].segment)
    /\ \A e \in _segment_cache : e[2] = Quoted(e[1])

\* The race: both threads missed the same key and computed its value; one
\* has stored it and returned, the other is about to store it again.
C20_Witness ==
    \E t, u \in Threads :
        /\ t # u
        /\ thread[t].segment = Unicode(S_ntilde)
        /\ thread[u].segment = Unicode(S_ntilde)
        /\ thread[t].pc = "returned"
        /\ thread[u].pc = "store"
        /\ thread[t].returned = <<PERCENT, 67, 51, PERCENT, 66, 49>>
        /\ <<Unicode(S_ntilde), thread[t].returned>> \in _segment_cache


(***************************************************************************)
(* C21.  A traversal always terminates: once the path has decoded, the     *)
(* walk makes at most one child lookup per segment, advances its index on  *)
(* each successful lookup, and returns after at most len(segments)         *)
(* lookups, whatever the shape of the graph, child-lookup cycles included. *)
(***************************************************************************)
WalkEnded == frame.pc \in {"returned", "raised"}

\* The lookups made so far: one for each segment passed, and one more when
\* the walk stopped on a segment its node could not resolve.
LookupsBounded ==
    /\ frame.i <= Len(frame.vpath_tuple)
    /\ frame.lookups <= Len(frame.vpath_tuple)
    /\ frame.lookups < MaxLookups
    /\ frame.pc = "loop" => frame.lookups = frame.i
    /\ frame.pc = "returned" => frame.lookups \in {frame.i, frame.i + 1}

\* The loop returns what the traverser returns.
WalkReturnsTheResult ==
    WalkEnded => ret = ModelGraphTraverser(graph, call.root, call.environ)

\* A lookup that succeeds moves the index on by one; no step makes two
\* lookups or moves the index back.
LookupAdvances ==
    /\ frame'.lookups \in {frame.lookups, frame.lookups + 1}
    /\ frame'.i >= frame.i
    /\ (frame'.pc = "loop" /\ frame'.lookups = frame.lookups + 1) =>
           frame'.i = frame.i + 1

\* What is left to do: the decoding, then one iteration per segment not
\* yet passed and the return.
Remaining ==
    IF frame.pc = "idle" THEN MaxLookups + 2
    ELSE IF frame.pc = "loop" THEN Len(frame.vpath_tuple) - frame.i + 1
    ELSE 0

\* A call that has not ended has a step to take.
CanStep ==
    \/ frame.pc = "idle"
    \/ frame.pc = "loop" /\ frame.i >= Len(frame.vpath_tuple)
    \/ /\ Looping
       /\ \/ is_view_selector(segment_at(frame))
          \/ ~has_getitem(graph, frame.ob)
          \/ frame.lookups < MaxLookups

\* Every step leaves strictly less to do and a call that has not ended can
\* always step, so the call ends after at most Remaining steps; the lookups
\* never exceed the number of segments.
C21_WalkTerminates ==
    /\ [](LookupsBounded /\ WalkReturnsTheResult /\ Remaining >= 0
          /\ (~WalkEnded => CanStep))
    /\ [][LookupAdvances /\ Remaining' < Remaining]_vars

\* Three lookups round the child-lookup cycle root -a-> a -a-> root -a-> a,
\* and the walk has returned.
C21_Witness ==
    /\ graph = G_cycle
    /\ frame.pc = "returned"
    /\ frame.vpath_tuple = <<S_a, S_a, S_a>>
    /\ frame.lookups = 3
    /\ ret.status = "ok"
    /\ ret.context = 2
    /\ ret.view_name = <<>>


(***************************************************************************)
(* C22.  Virtual-root confinement: when the virtual-host key is present    *)
(* and its path resolves to a node V, the context of every result of the   *)
(* traverser is V or a descendant of V, whatever the request path.         *)
(***************************************************************************)
\* The node the virtual-host path resolves to from the traverser's root,
\* None when it does not resolve.
VirtualRootNode(g, root, environ) ==
    IF environ.has_VH_ROOT /\ traversal_path(environ.VH_ROOT).status = "ok"
    THEN Descend(g, root, traversal_path(environ.VH_ROOT).value)
    ELSE None

C22_ContextBelowVirtualRoot ==
    (TraverserReturned /\ ret.status = "ok"
     /\ VirtualRootNode(graph, call.root, call.environ) # None) =>
        InLineage(graph, ret.context,
                  VirtualRootNode(graph, call.root, call.environ))


(***************************************************************************)
(* C23.  TraversalContextURL removes the virtual-host prefix from the      *)
(* context's path only when the segments of the virtual-host path are a    *)
(* segment-wise prefix of the context's path segments, and the path part   *)
(* appended to the application URL always begins with "/".                 *)
(***************************************************************************)
\* The names from the root (left out) down to n.
RECURSIVE NodeSegments(_, _)
NodeSegments(g, n) ==
    IF g.parent[n] = None THEN <<>>
    ELSE Append(NodeSegments(g, g.parent[n]), g.name[n])

IsPrefix(s, t) == Len(s) <= Len(t) /\ \A k \in 1..Len(s) : s[k] = t[k]

\* The returned URL without the application URL in front.
PathPart == SubSeq(ret.value, Len(call.request.application_url) + 1,
                   Len(ret.value))

SlashedPath(g, n) ==
    IF CanonicalPath(g, n) = <<SLASH>> THEN <<SLASH>>
    ELSE CanonicalPath(g, n) \o <<SLASH>>

C23_PrefixRemovedSegmentWise ==
    UrlReturned =>
        /\ PathPart # <<>> /\ PathPart[1] = SLASH
        /\ PathPart # SlashedPath(graph, call.context) =>
               /\ call.request.environ.has_VH_ROOT
               /\ traversal_path(call.request.environ.VH_ROOT).status = "ok"
               /\ IsPrefix(traversal_path(call.request.environ.VH_ROOT).value,
                           NodeSegments(graph, call.context))


(***************************************************************************)
(* C24.  Round trip under virtual hosting: for a virtual-host value that   *)
(* resolves to node V and a context C that is V or below V, the traverser  *)
(* run from the physical root with the same virtual-host value and with    *)
(* PATH_INFO = the path part TraversalContextURL produced for C gives      *)
(* context = C, an empty view_name and virtual_root = V.                   *)
(***************************************************************************)
\* The traverser's result for the path part of the returned URL.
TraversedBack ==
    ModelGraphTraverser(graph, RootOf(graph, call.context),
                        Environ(PathPart, call.request.environ.VH_ROOT))

\* The virtual-host value names V by the names on the way down to it.
VirtualRootIsNamed ==
    LET V == VirtualRootNode(graph, RootOf(graph, call.context),
                             call.request.environ)
    IN  /\ V # None
        /\ traversal_path(call.request.environ.VH_ROOT).value
               = NodeSegments(graph, V)

C24_UrlPathLeadsBackToContext ==
    (UrlReturned /\ WellFormed(graph) /\ VirtualRootIsNamed
     /\ InLineage(graph, call.context,
                  VirtualRootNode(graph, RootOf(graph, call.context),
                                  call.request.environ))) =>
        /\ TraversedBack.status = "ok"
        /\ TraversedBack.context = call.context
        /\ TraversedBack.view_name = <<>>
        /\ TraversedBack.virtual_root =
               VirtualRootNode(graph, RootOf(graph, call.context),
                               call.request.environ)


(***************************************************************************)
(* C25.  For the context of a result the traverser produced with a         *)
(* virtual-host key in the environment, TraversalContextURL.virtual_root   *)
(* with that context and the same environment returns the result's         *)
(* virtual_root; without the key it returns request.root when the request  *)
(* has one and find_root(context) otherwise.                               *)
(***************************************************************************)
VirtualRootReturned == Returned /\ call.fn = "virtual_root"

\* The traverser's result for the request's environment, from the root.
Traversed ==
    ModelGraphTraverser(graph, RootOf(graph, call.context),
                        call.request.environ)

C25_VirtualRootAgreesWithTraverser ==
    VirtualRootReturned =>
        /\ (call.request.environ.has_VH_ROOT /\ Traversed.status = "ok"
            /\ Traversed.context = call.context) =>
               (ret.status = "ok" /\ ret.value = Traversed.virtual_root)
        /\ ~call.request.environ.has_VH_ROOT =>
               /\ ret.status = "ok"
               /\ call.request.has_root => ret.value = call.request.root
               /\ ~call.request.has_root =>
                      ret.value = RootOf(graph, call.context)

====
